---- MODULE Spec2Model ----
(***************************************************************************)
(* Model of design-to-code-expert's analytical scripts:                    *)
(*   scripts/detect_stack.py   evidence-weighted stack classification      *)
(*   scripts/inspect_html.py   streaming HTML structural inspector         *)
(*                                                                         *)
(* Python floats are IEEE-754 binary64 values.  A float x is modelled as   *)
(* the record [t, d] with  x = t/1000 + d/(1000 * 2^60)  exactly: t is the *)
(* decimal the program means, in thousandths, and d is the deviation of    *)
(* the binary value from it.  Every float the scripts compute lies within  *)
(* a few ulps of a multiple of 0.001 and is a multiple of 2^-60, so both   *)
(* fields are small integers, and sums, products and roundings are         *)
(* computed exactly as the hardware computes them (round to nearest,       *)
(* ties to even).                                                          *)
(***************************************************************************)
EXTENDS Integers, Sequences, FiniteSets, TLC

----------------------------------------------------------------------------
(* IEEE-754 binary64 arithmetic                                            *)

\* x = t/1000 + d/(Milli * 2^FracBits)
Milli == 1000
FracBits == 60
\* a binary64 significand has 53 bits: the ulp of [2^e, 2^(e+1)) is 2^(e-52)
MantBits == 52

RECURSIVE Pow2Rec(_)
Pow2Rec(n) == IF n <= 0 THEN 1 ELSE 2 * Pow2Rec(n - 1)

RECURSIVE Pow2ModRec(_, _)
Pow2ModRec(n, m) == IF n <= 0 THEN 1 % m ELSE (2 * Pow2ModRec(n - 1, m)) % m

\* the powers of two the roundings below need, computed once
Pow2Table == [n \in 0..12 |-> Pow2Rec(n)]
Pow2ModTable == [n \in 48..64 |-> [k \in 1..2 |-> Pow2ModRec(n, k * Milli)]]

Pow2(n) == Pow2Table[n]
\* 2^n mod (k * Milli)
Pow2Mod(n, k) == Pow2ModTable[n][k]

F(t, d) == [t |-> t, d |-> d]
FNeg(a) == F(-a.t, -a.d)
FIsNeg(a) == a.t < 0 \/ (a.t = 0 /\ a.d < 0)
FLt(a, b) == a.t < b.t \/ (a.t = b.t /\ a.d < b.d)
FEq(a, b) == a.t = b.t /\ a.d = b.d
FLe(a, b) == FLt(a, b) \/ FEq(a, b)

\* the exponent e with 2^e <= t/1000 + eps < 2^(e+1), for t > 0; s is the
\* sign of the deviation eps, which decides when t/1000 is a power of two
Exponent(t) ==
    IF t >= 4 * Milli THEN 2
    ELSE IF t >= 2 * Milli THEN 1
    ELSE IF t >= Milli THEN 0
    ELSE IF 2 * t >= Milli THEN -1
    ELSE IF 4 * t >= Milli THEN -2
    ELSE IF 8 * t >= Milli THEN -3
    ELSE IF 16 * t >= Milli THEN -4
    ELSE IF 32 * t >= Milli THEN -5
    ELSE IF 64 * t >= Milli THEN -6
    ELSE IF 128 * t >= Milli THEN -7
    ELSE IF 256 * t >= Milli THEN -8
    ELSE -9

OnPower(t, e0) == IF e0 >= 0 THEN t = Milli * Pow2(e0) ELSE t * Pow2(-e0) = Milli

BinadeBelow(t, s, e0) == IF OnPower(t, e0) /\ s < 0 THEN e0 - 1 ELSE e0

Binade(t, s) == BinadeBelow(t, s, Exponent(t))

\* spacing of the binary64 values of binade e, in units of 2^-FracBits / Milli
Grid(e) == Milli * Pow2(FracBits - MantBits + e)

\* (t * 2^FracBits) mod Grid(e)
Residue(t, e) == Pow2(FracBits - MantBits + e) * ((t * Pow2Mod(MantBits - e, 1)) % Milli)

\* parity of floor(t * 2^FracBits / Grid(e))
QuotientOdd(t, e) ==
    LET p == (t % (2 * Milli)) * Pow2Mod(MantBits - e, 2)
    IN  ((p % (2 * Milli)) - (p % Milli)) \div Milli = 1

\* the binary64 value nearest to the real number t/1000 + d/(Milli * 2^FracBits),
\* ties to even; below 2^-8 every multiple of 2^-FracBits that arises is
\* itself a binary64 value
\* g is the grid, a the residue of t, r the residue of the whole value and
\* qodd the parity of the grid point below t
RoundOnGrid(t, d, g, a, r, qodd) ==
    IF r = 0 THEN F(t, d)
    ELSE IF 2 * r < g THEN F(t, d - r)
    ELSE IF 2 * r > g THEN F(t, d - r + g)
    ELSE IF qodd # ((((d - r + a) \div g) % 2) = 1) THEN F(t, d - r + g) ELSE F(t, d - r)

RoundInBinade(t, d, e) ==
    IF e < MantBits - FracBits THEN F(t, d)
    ELSE RoundOnGrid(t, d, Grid(e), Residue(t, e), (Residue(t, e) + d) % Grid(e),
                     QuotientOdd(t, e))

RoundPos(t, d) == IF t = 0 THEN F(t, d) ELSE RoundInBinade(t, d, Binade(t, d))

Sign(t, d) == IF t < 0 \/ (t = 0 /\ d < 0) THEN -1 ELSE 1

FScale(s, a) == F(s * a.t, s * a.d)

RoundSigned(s, t, d) == FScale(s, RoundPos(s * t, s * d))

RoundNearest(t, d) == RoundSigned(Sign(t, d), t, d)

\* the binary64 values of the decimals 0.000 .. 3.000, computed once
LitTable == [t \in 0..3000 |-> RoundPos(t, 0)]

\* a decimal literal of the source, given in thousandths
Lit(t) == LitTable[t]

FAdd(a, b) == RoundNearest(a.t + b.t, a.d + b.d)
FSub(a, b) == RoundNearest(a.t - b.t, a.d - b.d)

\* a * b for non-negative a, b whose decimal product is a multiple of 0.001.
\* The exact product is  tp/1000 + (c + d1*d2/U)/(1000*U)  with U = Milli*2^FracBits;
\* the last term is below one unit and matters only on an exact tie.
FMulOnGrid(tp, c, tiny, g, a, r, qodd) ==
    IF 2 * r < g THEN F(tp, (c - r) \div Milli)
    ELSE IF 2 * r > g THEN F(tp, (c - r + g) \div Milli)
    ELSE IF tiny > 0 THEN F(tp, (c - r + g) \div Milli)
    ELSE IF tiny < 0 THEN F(tp, (c - r) \div Milli)
    ELSE IF qodd # ((((c - r + a) \div g) % 2) = 1) THEN F(tp, (c - r + g) \div Milli)
    ELSE F(tp, (c - r) \div Milli)

FMulInBinade(tp, c, tiny, e) ==
    FMulOnGrid(tp, c, tiny, Milli * Grid(e), Milli * Residue(tp, e),
               (Milli * Residue(tp, e) + c) % (Milli * Grid(e)), QuotientOdd(tp, e))

FMulExact(tp, c, tiny) ==
    IF tp = 0 THEN F(0, 0)
    ELSE FMulInBinade(tp, c, tiny, Binade(tp, IF c # 0 THEN c ELSE tiny))

FMul(a, b) == FMulExact((a.t * b.t) \div Milli, a.t * b.d + b.t * a.d, a.d * b.d)

\* a / 2.0 is exact in binary
FHalf(a) == F(a.t \div 2, a.d \div 2)

FMin(a, b) == IF FLt(b, a) THEN b ELSE a
FMax(a, b) == IF FLt(a, b) THEN b ELSE a

\* round(x, 2) for x >= 0: the exact value of x rounded half-even to
\* hundredths, then converted to the nearest binary64 value
RoundsUp(q, s, d) ==
    IF s > 5 THEN TRUE
    ELSE IF s < 5 THEN FALSE
    ELSE IF d > 0 THEN TRUE
    ELSE IF d < 0 THEN FALSE
    ELSE q % 2 = 1

Round2(a) == Lit(10 * (IF RoundsUp(a.t \div 10, a.t % 10, a.d) THEN a.t \div 10 + 1 ELSE a.t \div 10))

----------------------------------------------------------------------------
(* scripts/detect_stack.py                                                 *)

EXCLUDED_DIRS == {"node_modules", ".git", ".next", ".nuxt", "dist", "build",
                  "coverage", "out", ".turbo"}

\* argparse choices of --framework and --style
FrameworkChoices == {"auto", "next", "react", "nuxt", "vue", "taro", "svelte", "vanilla"}
StyleChoices == {"auto", "tailwind", "css-modules", "scss", "less",
                 "styled-components", "emotion", "css"}

\* the candidate labels in the insertion order of the two score dicts
FrameworkLabels == <<"next", "react", "nuxt", "vue", "taro", "svelte", "vanilla">>
StyleLabels == <<"tailwind", "css-modules", "scss", "less", "styled-components",
                 "emotion", "css">>

Range(s) == {s[i] : i \in DOMAIN s}

\* the dependency names that start with "@tarojs/"
StartsWithTarojs(dep) == dep \in {"@tarojs/taro", "@tarojs/cli"}

\* Path.suffix.lower() of a file name given as its dot-separated lower-case
\* components: the text after the last dot, unless that dot leads the name
\* or ends it
Suffix(name) ==
    IF Len(name) >= 2 /\ name[Len(name)] # "" /\ ~(Len(name) = 2 /\ name[1] = "")
    THEN name[Len(name)] ELSE ""

\* filename.lower().endswith(".module." + ext)
EndsWithModule(name, ext) ==
    Len(name) >= 3 /\ name[Len(name) - 1] = "module" /\ name[Len(name)] = ext

StatKeys == {"ts", "tsx", "js", "jsx", "vue", "svelte", "scss", "less", "css",
             "module_css", "module_scss", "module_less"}

ZeroCounts == [k \in StatKeys |-> 0]

\* the two if/elif chains of the loop body, for one file
CountFile(counts, name) ==
    LET suffix == Suffix(name)
        c1 == IF suffix \in {"ts", "tsx", "js", "jsx", "vue", "svelte", "scss", "less", "css"}
              THEN [counts EXCEPT ![suffix] = @ + 1] ELSE counts
    IN  IF EndsWithModule(name, "css") THEN [c1 EXCEPT !["module_css"] = @ + 1]
        ELSE IF EndsWithModule(name, "scss") THEN [c1 EXCEPT !["module_scss"] = @ + 1]
        ELSE IF EndsWithModule(name, "less") THEN [c1 EXCEPT !["module_less"] = @ + 1]
        ELSE c1

\* os.walk over the project: walk is the sequence of files in walk order, each
\* with the directory names on its path below the root; a directory named in
\* EXCLUDED_DIRS is pruned, so no file below it is visited
RECURSIVE WalkFrom(_, _, _, _, _)
WalkFrom(walk, i, scanned, counts, max_files) ==
    IF i > Len(walk) THEN counts
    ELSE IF Range(walk[i].dirs) \cap EXCLUDED_DIRS # {}
         THEN WalkFrom(walk, i + 1, scanned, counts, max_files)
    ELSE IF scanned >= max_files THEN counts
    ELSE WalkFrom(walk, i + 1, scanned + 1, CountFile(counts, walk[i].name), max_files)

MAX_FILES == 4000

gather_source_stats(walk, max_files) == WalkFrom(walk, 1, 0, ZeroCounts, max_files)

\* add(name, points, reason) of both classifiers, on cls = [scores, evidence]
add(cls, name, points, reason) ==
    [scores |-> [cls.scores EXCEPT ![name] = FAdd(@, Lit(points))],
     evidence |-> [cls.evidence EXCEPT ![name] = Append(@, reason)]]

Rule(fires, name, points, reason) ==
    [fires |-> fires, name |-> name, points |-> points, reason |-> reason]

\* the if-statements of a classifier in source order
RECURSIVE ApplyRules(_, _, _)
ApplyRules(cls, rules, i) ==
    IF i > Len(rules) THEN cls
    ELSE ApplyRules(IF rules[i].fires
                    THEN add(cls, rules[i].name, rules[i].points, rules[i].reason)
                    ELSE cls,
                    rules, i + 1)

\* sorted(scores.items(), key=lambda x: x[1], reverse=True): a stable sort, so
\* items of equal score keep the dict's insertion order
\* mutant: an unstable insertion, which puts an item before the items of equal score
RECURSIVE InsertDescUnstable(_, _, _)
InsertDescUnstable(sorted, item, i) ==
    IF i > Len(sorted) THEN Append(sorted, item)
    ELSE IF FLe(sorted[i].score, item.score)
         THEN SubSeq(sorted, 1, i - 1) \o <<item>> \o SubSeq(sorted, i, Len(sorted))
         ELSE InsertDescUnstable(sorted, item, i + 1)

RECURSIVE InsertDesc(_, _, _)
InsertDesc(sorted, item, i) ==
    IF i > Len(sorted) THEN Append(sorted, item)
    ELSE IF FLt(sorted[i].score, item.score)
         THEN SubSeq(sorted, 1, i - 1) \o <<item>> \o SubSeq(sorted, i, Len(sorted))
         ELSE InsertDesc(sorted, item, i + 1)

RECURSIVE SortItems(_, _, _, _)
SortItems(labels, scores, i, acc) ==
    IF i > Len(labels) THEN acc
    ELSE SortItems(labels, scores, i + 1,
                   InsertDesc(acc, [name |-> labels[i], score |-> scores[labels[i]]], 1))

SortedByScore(labels, scores) == SortItems(labels, scores, 1, <<>>)

FrameworkBaseline == [n \in Range(FrameworkLabels) |-> IF n = "vanilla" THEN Lit(200) ELSE Lit(0)]

\* mutant: one more rule, which credits the baseline label
FrameworkRulesCreditBaseline(paths, dep_names) ==
    << Rule("next" \in dep_names, "next", 1200, "dependency: next"),
       Rule("react" \in dep_names, "react", 900, "dependency: react"),
       Rule("react-dom" \in dep_names, "react", 300, "dependency: react-dom"),
       Rule("react-router" \in dep_names \/ "react-router-dom" \in dep_names,
            "react", 200, "dependency: react-router"),
       Rule("nuxt" \in dep_names, "nuxt", 1200, "dependency: nuxt"),
       Rule("vue" \in dep_names, "vue", 900, "dependency: vue"),
       Rule("vue-router" \in dep_names, "vue", 200, "dependency: vue-router"),
       Rule(\E dep \in dep_names : StartsWithTarojs(dep), "taro", 1300, "dependency: @tarojs/*"),
       Rule("svelte" \in dep_names, "svelte", 1000, "dependency: svelte"),
       Rule("@sveltejs/kit" \in dep_names, "svelte", 500, "dependency: @sveltejs/kit"),
       Rule("next.config.js" \in paths \/ "next.config.mjs" \in paths,
            "next", 400, "config: next.config.*"),
       Rule("nuxt.config.ts" \in paths \/ "nuxt.config.js" \in paths,
            "nuxt", 400, "config: nuxt.config.*"),
       Rule("src/app" \in paths \/ "app" \in paths, "next", 300, "dir: app router structure"),
       Rule("pages" \in paths \/ "src/pages" \in paths, "next", 100, "dir: pages structure"),
       Rule("pages" \in paths \/ "src/pages" \in paths, "react", 100, "dir: pages structure"),
       Rule("pages" \in paths \/ "src/pages" \in paths, "nuxt", 100, "dir: pages structure"),
       Rule("config/index.ts" \in paths \/ "config/index.js" \in paths,
            "taro", 300, "config: taro-like config/index.*"),
       Rule(dep_names = {}, "vanilla", 300, "dependency: none") >>

FrameworkRules(paths, dep_names) ==
    << Rule("next" \in dep_names, "next", 1200, "dependency: next"),
       Rule("react" \in dep_names, "react", 900, "dependency: react"),
       Rule("react-dom" \in dep_names, "react", 300, "dependency: react-dom"),
       Rule("react-router" \in dep_names \/ "react-router-dom" \in dep_names,
            "react", 200, "dependency: react-router"),
       Rule("nuxt" \in dep_names, "nuxt", 1200, "dependency: nuxt"),
       Rule("vue" \in dep_names, "vue", 900, "dependency: vue"),
       Rule("vue-router" \in dep_names, "vue", 200, "dependency: vue-router"),
       Rule(\E dep \in dep_names : StartsWithTarojs(dep), "taro", 1300, "dependency: @tarojs/*"),
       Rule("svelte" \in dep_names, "svelte", 1000, "dependency: svelte"),
       Rule("@sveltejs/kit" \in dep_names, "svelte", 500, "dependency: @sveltejs/kit"),
       Rule("next.config.js" \in paths \/ "next.config.mjs" \in paths,
            "next", 400, "config: next.config.*"),
       Rule("nuxt.config.ts" \in paths \/ "nuxt.config.js" \in paths,
            "nuxt", 400, "config: nuxt.config.*"),
       Rule("src/app" \in paths \/ "app" \in paths, "next", 300, "dir: app router structure"),
       Rule("pages" \in paths \/ "src/pages" \in paths, "next", 100, "dir: pages structure"),
       Rule("pages" \in paths \/ "src/pages" \in paths, "react", 100, "dir: pages structure"),
       Rule("pages" \in paths \/ "src/pages" \in paths, "nuxt", 100, "dir: pages structure"),
       Rule("config/index.ts" \in paths \/ "config/index.js" \in paths,
            "taro", 300, "config: taro-like config/index.*") >>

\* mutant: the margin penalty of the style axis (0.10) in place of 0.12
FrameworkConfidenceStylePenalty(top_name, top_score, second_score) ==
    LET raw == IF top_name = "vanilla"
               THEN (IF FLt(Lit(200), top_score) THEN Lit(550) ELSE Lit(350))
               ELSE LET c == FMin(Lit(980), FAdd(Lit(450), FMul(top_score, Lit(280))))
                    IN  IF FLt(FSub(top_score, second_score), Lit(250))
                        THEN FSub(c, Lit(100)) ELSE c
    IN  FMax(Lit(100), Round2(raw))

FrameworkConfidence(top_name, top_score, second_score) ==
    LET raw == IF top_name = "vanilla"
               THEN (IF FLt(Lit(200), top_score) THEN Lit(550) ELSE Lit(350))
               ELSE LET c == FMin(Lit(980), FAdd(Lit(450), FMul(top_score, Lit(280))))
                    IN  IF FLt(FSub(top_score, second_score), Lit(250))
                        THEN FSub(c, Lit(120)) ELSE c
    IN  FMax(Lit(100), Round2(raw))

detect_framework(paths, dep_names) ==
    LET cls == ApplyRules([scores |-> FrameworkBaseline,
                           evidence |-> [n \in Range(FrameworkLabels) |-> <<>>]],
                          FrameworkRules(paths, dep_names), 1)
        ordered == SortedByScore(FrameworkLabels, cls.scores)
        top_name == ordered[1].name
        top_score == ordered[1].score
        second_score == IF Len(ordered) > 1 THEN ordered[2].score ELSE Lit(0)
    IN  [name |-> top_name,
         confidence |-> FrameworkConfidence(top_name, top_score, second_score),
         evidence |-> cls.evidence[top_name],
         scores |-> cls.scores]

\* mutant: the comparison is not strict, so equal counts give typescript
detect_languageNotStrict(paths, source_stats) ==
    LET ts_total == source_stats["ts"] + source_stats["tsx"]
        js_total == source_stats["js"] + source_stats["jsx"]
    IN  IF "tsconfig.json" \in paths
        THEN [name |-> "typescript", evidence |-> <<"file: tsconfig.json">>]
        ELSE IF ts_total >= js_total
        THEN [name |-> "typescript",
              evidence |-> <<"source: ts files " \o ToString(ts_total)
                             \o " > js files " \o ToString(js_total)>>]
        ELSE [name |-> "javascript",
              evidence |-> <<"source: js files " \o ToString(js_total)
                             \o " >= ts files " \o ToString(ts_total)>>]

detect_language(paths, source_stats) ==
    LET ts_total == source_stats["ts"] + source_stats["tsx"]
        js_total == source_stats["js"] + source_stats["jsx"]
    IN  IF "tsconfig.json" \in paths
        THEN [name |-> "typescript", evidence |-> <<"file: tsconfig.json">>]
        ELSE IF ts_total > js_total
        THEN [name |-> "typescript",
              evidence |-> <<"source: ts files " \o ToString(ts_total)
                             \o " > js files " \o ToString(js_total)>>]
        ELSE [name |-> "javascript",
              evidence |-> <<"source: js files " \o ToString(js_total)
                             \o " >= ts files " \o ToString(ts_total)>>]

StyleBaseline == [n \in Range(StyleLabels) |-> IF n = "css" THEN Lit(200) ELSE Lit(0)]

StyleRules(paths, dep_names, source_stats) ==
    LET module_total == source_stats["module_css"] + source_stats["module_scss"]
                        + source_stats["module_less"]
    IN  << Rule("tailwindcss" \in dep_names, "tailwind", 1000, "dependency: tailwindcss"),
           Rule("tailwind.config.js" \in paths \/ "tailwind.config.ts" \in paths,
                "tailwind", 500, "config: tailwind.config.*"),
           Rule(module_total > 0, "css-modules", 900,
                "source: module style files " \o ToString(module_total)),
           Rule(source_stats["scss"] > 0 \/ "sass" \in dep_names,
                "scss", 700, "source/dependency: scss or sass"),
           Rule(source_stats["less"] > 0 \/ "less" \in dep_names,
                "less", 700, "source/dependency: less"),
           Rule("styled-components" \in dep_names,
                "styled-components", 1000, "dependency: styled-components"),
           Rule("@emotion/react" \in dep_names \/ "@emotion/styled" \in dep_names,
                "emotion", 1000, "dependency: emotion") >>

StyleConfidence(top_score, second_score) ==
    LET c == FMin(Lit(980), FAdd(Lit(450), FMul(top_score, Lit(350))))
        raw == IF FLt(FSub(top_score, second_score), Lit(200)) THEN FSub(c, Lit(100)) ELSE c
    IN  FMax(Lit(100), Round2(raw))

detect_style_system(paths, dep_names, source_stats) ==
    LET cls == ApplyRules([scores |-> StyleBaseline,
                           evidence |-> [n \in Range(StyleLabels) |-> <<>>]],
                          StyleRules(paths, dep_names, source_stats), 1)
        ordered == SortedByScore(StyleLabels, cls.scores)
        top_name == ordered[1].name
        top_score == ordered[1].score
        second_score == IF Len(ordered) > 1 THEN ordered[2].score ELSE Lit(0)
    IN  [name |-> top_name,
         evidence |-> cls.evidence[top_name],
         confidence |-> StyleConfidence(top_score, second_score),
         scores |-> cls.scores]

detect_package_manager(paths) ==
    IF "pnpm-lock.yaml" \in paths THEN [name |-> "pnpm", evidence |-> <<"file: pnpm-lock.yaml">>]
    ELSE IF "yarn.lock" \in paths THEN [name |-> "yarn", evidence |-> <<"file: yarn.lock">>]
    ELSE IF "package-lock.json" \in paths
         THEN [name |-> "npm", evidence |-> <<"file: package-lock.json">>]
    ELSE IF "bun.lockb" \in paths \/ "bun.lock" \in paths
         THEN [name |-> "bun", evidence |-> <<"file: bun lock">>]
    ELSE [name |-> "npm", evidence |-> <<"fallback: no lockfile">>]

\* suggest_target_path.py, lines 30-53
infer_framework(paths, dep_names, framework_opt) ==
    IF framework_opt # "auto" THEN framework_opt
    ELSE IF "next" \in dep_names THEN "next"
    ELSE IF "nuxt" \in dep_names THEN "nuxt"
    ELSE IF \E name \in dep_names : StartsWithTarojs(name) THEN "taro"
    ELSE IF "@sveltejs/kit" \in dep_names \/ "svelte" \in dep_names THEN "svelte"
    ELSE IF "vue" \in dep_names THEN "vue"
    ELSE IF "react" \in dep_names THEN "react"
    ELSE IF "src/app" \in paths \/ "app" \in paths THEN "next"
    ELSE IF "pages" \in paths /\ "nuxt.config.ts" \in paths THEN "nuxt"
    ELSE "vanilla"

----------------------------------------------------------------------------
(* The projects and command lines the classifier is run on                 *)

DepNames == {"next", "react", "react-dom", "react-router", "react-router-dom",
             "nuxt", "vue", "vue-router", "@tarojs/taro", "svelte", "@sveltejs/kit",
             "tailwindcss", "sass", "less", "styled-components",
             "@emotion/react", "@emotion/styled", "lodash"}

PathNames == {"next.config.js", "next.config.mjs", "nuxt.config.ts", "nuxt.config.js",
              "src/app", "app", "pages", "src/pages", "config/index.ts", "config/index.js",
              "tailwind.config.js", "tailwind.config.ts", "tsconfig.json",
              "pnpm-lock.yaml", "yarn.lock", "package-lock.json", "bun.lockb", "bun.lock"}

\* The files a project may hold, in the order os.walk lists them (top down).
\* path names the entry of PathNames the file is, for the files whose
\* existence the detectors test; the other entries of PathNames are
\* directories and hold no file of their own.
WalkUniverse ==
    << [dirs |-> <<>>, name |-> <<"index", "js">>, path |-> ""],
       [dirs |-> <<>>, name |-> <<"", "gitignore">>, path |-> ""],
       [dirs |-> <<>>, name |-> <<"next", "config", "js">>, path |-> "next.config.js"],
       [dirs |-> <<>>, name |-> <<"next", "config", "mjs">>, path |-> "next.config.mjs"],
       [dirs |-> <<>>, name |-> <<"nuxt", "config", "ts">>, path |-> "nuxt.config.ts"],
       [dirs |-> <<>>, name |-> <<"nuxt", "config", "js">>, path |-> "nuxt.config.js"],
       [dirs |-> <<>>, name |-> <<"tailwind", "config", "js">>, path |-> "tailwind.config.js"],
       [dirs |-> <<>>, name |-> <<"tailwind", "config", "ts">>, path |-> "tailwind.config.ts"],
       [dirs |-> <<>>, name |-> <<"tsconfig", "json">>, path |-> "tsconfig.json"],
       [dirs |-> <<>>, name |-> <<"pnpm-lock", "yaml">>, path |-> "pnpm-lock.yaml"],
       [dirs |-> <<>>, name |-> <<"yarn", "lock">>, path |-> "yarn.lock"],
       [dirs |-> <<>>, name |-> <<"package-lock", "json">>, path |-> "package-lock.json"],
       [dirs |-> <<>>, name |-> <<"bun", "lockb">>, path |-> "bun.lockb"],
       [dirs |-> <<>>, name |-> <<"bun", "lock">>, path |-> "bun.lock"],
       [dirs |-> <<"config">>, name |-> <<"index", "ts">>, path |-> "config/index.ts"],
       [dirs |-> <<"config">>, name |-> <<"index", "js">>, path |-> "config/index.js"],
       [dirs |-> <<"node_modules", "pkg">>, name |-> <<"theme", "scss">>, path |-> ""],
       [dirs |-> <<"src">>, name |-> <<"app", "tsx">>, path |-> ""],
       [dirs |-> <<"src">>, name |-> <<"main", "ts">>, path |-> ""],
       [dirs |-> <<"src">>, name |-> <<"view", "jsx">>, path |-> ""],
       [dirs |-> <<"src">>, name |-> <<"page", "vue">>, path |-> ""],
       [dirs |-> <<"src">>, name |-> <<"widget", "svelte">>, path |-> ""],
       [dirs |-> <<"src">>, name |-> <<"base", "css">>, path |-> ""],
       [dirs |-> <<"src">>, name |-> <<"theme", "scss">>, path |-> ""],
       [dirs |-> <<"src">>, name |-> <<"theme", "less">>, path |-> ""],
       [dirs |-> <<"src">>, name |-> <<"card", "module", "css">>, path |-> ""],
       [dirs |-> <<"src">>, name |-> <<"card", "module", "scss">>, path |-> ""],
       [dirs |-> <<"src">>, name |-> <<"card", "module", "less">>, path |-> ""],
       [dirs |-> <<"src">>, name |-> <<"index", "js">>, path |-> ""],
       [dirs |-> <<"src">>, name |-> <<"nav", "tsx">>, path |-> ""],
       [dirs |-> <<"src">>, name |-> <<"hero", "tsx">>, path |-> ""],
       [dirs |-> <<"src">>, name |-> <<"list", "tsx">>, path |-> ""],
       [dirs |-> <<"src">>, name |-> <<"foot", "tsx">>, path |-> ""] >>

\* the source files: those that are not one of PathNames
SourceFiles == {i \in DOMAIN WalkUniverse : WalkUniverse[i].path = ""}

\* the walk of the project whose existing paths are paths and whose source
\* files are those with an index in picked
RECURSIVE PickFrom(_, _, _)
PickFrom(paths, picked, i) ==
    IF i > Len(WalkUniverse) THEN <<>>
    ELSE (IF i \in picked \/ WalkUniverse[i].path \in paths
          THEN <<[dirs |-> WalkUniverse[i].dirs, name |-> WalkUniverse[i].name]>>
          ELSE <<>>) \o PickFrom(paths, picked, i + 1)

RECURSIVE SubsetsUpTo(_, _)
SubsetsUpTo(S, k) ==
    IF k <= 0 THEN {{}}
    ELSE LET smaller == SubsetsUpTo(S, k - 1)
         IN  smaller \cup {T \cup {x} : T \in smaller, x \in S}

Project(dep_names, paths, picked) ==
    [deps |-> dep_names, paths |-> paths, walk |-> PickFrom(paths, picked, 1)]

\* the number of dependencies, paths and files of a project that is run
\* under every command line
MaxItems == 1

Items == ({"dep"} \X DepNames) \cup ({"path"} \X PathNames)
         \cup ({"file"} \X SourceFiles)

SmallProjects ==
    { Project({it[2] : it \in {x \in I : x[1] = "dep"}},
              {it[2] : it \in {x \in I : x[1] = "path"}},
              {it[2] : it \in {x \in I : x[1] = "file"}}) : I \in SubsetsUpTo(Items, MaxItems) }

\* every combination of the facts the framework rules read
FrameworkProjects ==
    { Project(D, P, {}) :
        D \in SUBSET {"next", "react", "react-dom", "react-router", "nuxt", "vue",
                      "vue-router", "@tarojs/taro", "svelte", "@sveltejs/kit"},
        P \in SUBSET {"next.config.js", "nuxt.config.ts", "src/app", "pages",
                      "config/index.ts"} }

\* every combination of the facts the style rules read
StyleProjects ==
    { Project(D, P, K) :
        D \in SUBSET {"tailwindcss", "sass", "less", "styled-components", "@emotion/react"},
        P \in SUBSET {"tailwind.config.js"},
        K \in SUBSET {i \in SourceFiles :
                         /\ WalkUniverse[i].dirs = <<"src">>
                         /\ WalkUniverse[i].name \in {<<"theme", "scss">>, <<"theme", "less">>,
                                                      <<"card", "module", "css">>} } }

\* every combination of the facts detect_language reads
LanguageProjects ==
    { Project({}, P, K) :
        P \in SUBSET {"tsconfig.json"},
        K \in SUBSET {i \in SourceFiles :
                         /\ WalkUniverse[i].dirs = <<"src">>
                         /\ Suffix(WalkUniverse[i].name) \in {"ts", "tsx", "js", "jsx"} } }

----------------------------------------------------------------------------
(* scripts/inspect_html.py: class DraftInspector(HTMLParser)               *)
(*                                                                         *)
(* Tag names are strings.  Attribute values and text are sequences of      *)
(* one-character strings, so that split() and strip() are computed; the    *)
(* value None of an attribute written without a value is NoneValue.        *)

NoneValue == <<"<None>">>
Truthy(v) == v # NoneValue /\ v # <<>>

SEMANTIC_TAGS == {"header", "main", "section", "footer", "nav", "article", "aside", "form"}
INTERACTIVE_TAGS == {"button", "a", "input", "select", "textarea", "summary"}

\* html.parser.HTMLParser.CDATA_CONTENT_ELEMENTS: after the start tag of one
\* of these the parser reports text only, up to the matching end tag
CDATA_CONTENT_ELEMENTS == {"script", "style"}

Whitespace == {" ", "\t", "\n"}

\* str.split(): the maximal runs of non-whitespace characters
RECURSIVE SplitFrom(_, _, _)
SplitFrom(text, i, word) ==
    IF i > Len(text) THEN (IF word = <<>> THEN <<>> ELSE <<word>>)
    ELSE IF text[i] \in Whitespace
         THEN (IF word = <<>> THEN <<>> ELSE <<word>>) \o SplitFrom(text, i + 1, <<>>)
         ELSE SplitFrom(text, i + 1, Append(word, text[i]))

Split(text) == SplitFrom(text, 1, <<>>)

\* str.strip()
RECURSIVE LStrip(_)
LStrip(text) ==
    IF text # <<>> /\ Head(text) \in Whitespace THEN LStrip(Tail(text)) ELSE text

RECURSIVE RStrip(_)
RStrip(text) ==
    IF text # <<>> /\ text[Len(text)] \in Whitespace
    THEN RStrip(SubSeq(text, 1, Len(text) - 1)) ELSE text

Strip(text) == RStrip(LStrip(text))

\* "".join(chunks)
RECURSIVE Join(_)
Join(chunks) == IF chunks = <<>> THEN <<>> ELSE Head(chunks) \o Join(Tail(chunks))

\* str.lower() on the letters the sample documents use
LowerChar(c) == CASE c = "S" -> "s" [] c = "T" -> "t" [] OTHER -> c
Lower(text) == [i \in DOMAIN text |-> LowerChar(text[i])]

\* sub in text
Contains(text, sub) ==
    \E i \in 0..(Len(text) - Len(sub)) :
        \A j \in 1..Len(sub) : text[i + j] = sub[j]

Stylesheet == <<"s", "t", "y", "l", "e", "s", "h", "e", "e", "t">>

\* {k: v for k, v in attrs}: the last pair of a key wins
AttrsDict(attrs) ==
    [k \in {attrs[i][1] : i \in DOMAIN attrs} |->
        attrs[CHOOSE i \in DOMAIN attrs :
                  /\ attrs[i][1] = k
                  /\ \A j \in DOMAIN attrs : attrs[j][1] = k => j <= i][2]]

\* dict.get(key, default)
Get(d, key, default) == IF key \in DOMAIN d THEN d[key] ELSE default

\* collections.Counter
Count(counter, key) == IF key \in DOMAIN counter THEN counter[key] ELSE 0
Increment(counter, key) ==
    IF key \in DOMAIN counter THEN [counter EXCEPT ![key] = @ + 1]
    ELSE counter @@ (key :> 1)

RECURSIVE IncrementAll(_, _)
IncrementAll(counter, keys) ==
    IF keys = <<>> THEN counter
    ELSE IncrementAll(Increment(counter, Head(keys)), Tail(keys))

EmptyCounter == [k \in {} |-> 0]

\* DraftInspector.__init__
NewInspector ==
    [tag_counter |-> EmptyCounter,
     class_counter |-> EmptyCounter,
     semantic_sections |-> EmptyCounter,
     interactive_elements |-> <<>>,
     images |-> <<>>,
     stylesheets |-> <<>>,
     scripts |-> <<>>,
     inline_styles |-> <<>>,
     style_blocks |-> <<>>,
     in_style |-> FALSE,
     style_buffer |-> <<>>,
     stack |-> <<>>,
     root_children |-> <<>>]

ROOT_CHILD_LIMIT == 30

\* the distinct items of a sequence, in first-seen order
RECURSIVE Distinct(_)
Distinct(seq) ==
    IF seq = <<>> THEN <<>>
    ELSE LET front == Distinct(SubSeq(seq, 1, Len(seq) - 1))
         IN  IF seq[Len(seq)] \in {front[i] : i \in DOMAIN front} THEN front
             ELSE Append(front, seq[Len(seq)])

\* mutant: each class name of a tag counted once, however often it is written
CountClassesOnce(class_counter, attrs_dict) ==
    LET class_attr == Get(attrs_dict, "class", NoneValue)
    IN  IF Truthy(class_attr) THEN IncrementAll(class_counter, Distinct(Split(class_attr)))
        ELSE class_counter

\* lines 40-43: the class counters after a tag with these attributes
CountClasses(class_counter, attrs_dict) ==
    LET class_attr == Get(attrs_dict, "class", NoneValue)
    IN  IF Truthy(class_attr) THEN IncrementAll(class_counter, Split(class_attr))
        ELSE class_counter

\* mutant: an off-by-one limit, which lets a 31st sample in
RecordRootChildOffByOne(stack, root_children, tag, attrs_dict) ==
    LET parent == IF stack # <<>> THEN stack[Len(stack)] ELSE ""
    IN  IF parent = "body" /\ Len(root_children) <= ROOT_CHILD_LIMIT
        THEN Append(root_children, [tag |-> tag,
                                    id |-> Get(attrs_dict, "id", <<>>),
                                    class |-> Get(attrs_dict, "class", <<>>)])
        ELSE root_children

\* lines 71-79: the root-child samples after a tag opened under this stack
RecordRootChild(stack, root_children, tag, attrs_dict) ==
    LET parent == IF stack # <<>> THEN stack[Len(stack)] ELSE ""
    IN  IF parent = "body" /\ Len(root_children) < ROOT_CHILD_LIMIT
        THEN Append(root_children, [tag |-> tag,
                                    id |-> Get(attrs_dict, "id", <<>>),
                                    class |-> Get(attrs_dict, "class", <<>>)])
        ELSE root_children

handle_starttag(self, tag, attrs) ==
    LET attrs_dict == AttrsDict(attrs)
        interactive == \/ tag \in INTERACTIVE_TAGS
                       \/ Truthy(Get(attrs_dict, "onclick", NoneValue))
                       \/ Get(attrs_dict, "role", NoneValue) = <<"b", "u", "t", "t", "o", "n">>
        src == Get(attrs_dict, "src", NoneValue)
        href == Get(attrs_dict, "href", NoneValue)
        rel == IF Truthy(Get(attrs_dict, "rel", NoneValue)) THEN Lower(attrs_dict["rel"]) ELSE <<>>
        style_attr == Get(attrs_dict, "style", NoneValue)
    IN  [self EXCEPT
           !.tag_counter = Increment(@, tag),
           !.class_counter = CountClasses(@, attrs_dict),
           !.semantic_sections = IF tag \in SEMANTIC_TAGS THEN Increment(@, tag) ELSE @,
           !.interactive_elements =
               IF interactive
               THEN Append(@, [tag |-> tag,
                               id |-> Get(attrs_dict, "id", <<>>),
                               class |-> Get(attrs_dict, "class", <<>>),
                               role |-> Get(attrs_dict, "role", <<>>)])
               ELSE @,
           !.images = IF tag = "img" /\ Truthy(src) THEN Append(@, src) ELSE @,
           !.stylesheets = IF tag = "link" /\ Truthy(href) /\ Contains(rel, Stylesheet)
                           THEN Append(@, href) ELSE @,
           !.scripts = IF tag = "script" /\ Truthy(src) THEN Append(@, src) ELSE @,
           !.inline_styles = IF Truthy(style_attr) THEN Append(@, style_attr) ELSE @,
           !.root_children = RecordRootChild(self.stack, @, tag, attrs_dict),
           !.in_style = IF tag = "style" THEN TRUE ELSE @,
           !.style_buffer = IF tag = "style" THEN <<>> ELSE @,
           !.stack = Append(@, tag)]

handle_startendtag(self, tag, attrs) ==
    LET s == handle_starttag(self, tag, attrs)
    IN  IF s.stack # <<>> /\ s.stack[Len(s.stack)] = tag
        THEN [s EXCEPT !.stack = SubSeq(@, 1, Len(@) - 1)]
        ELSE s

\* lines 100-103: the index the loop deletes, 0 when no entry matches
InnermostMatch(stack, tag) ==
    IF \E i \in DOMAIN stack : stack[i] = tag
    THEN CHOOSE i \in DOMAIN stack :
             stack[i] = tag /\ \A j \in DOMAIN stack : stack[j] = tag => j <= i
    ELSE 0

RemoveAt(seq, idx) == SubSeq(seq, 1, idx - 1) \o SubSeq(seq, idx + 1, Len(seq))

\* mutant: strict nesting, which closes every tag opened after the match too
CloseTagTruncate(stack, tag) ==
    LET idx == InnermostMatch(stack, tag)
    IN  IF idx = 0 THEN stack ELSE SubSeq(stack, 1, idx - 1)

\* mutant: the search runs outermost-first
CloseTagOutermost(stack, tag) ==
    IF \E i \in DOMAIN stack : stack[i] = tag
    THEN RemoveAt(stack, CHOOSE i \in DOMAIN stack :
                             stack[i] = tag /\ \A j \in DOMAIN stack : stack[j] = tag => i <= j)
    ELSE stack

CloseTag(stack, tag) ==
    LET idx == InnermostMatch(stack, tag)
    IN  IF idx = 0 THEN stack ELSE RemoveAt(stack, idx)

\* lines 93-98: the end of a style block
CloseStyle(self, tag) ==
    IF tag = "style" /\ self.in_style
    THEN LET text == Strip(Join(self.style_buffer))
         IN  [self EXCEPT !.in_style = FALSE,
                          !.style_blocks = IF text # <<>> THEN Append(@, text) ELSE @,
                          !.style_buffer = <<>>]
    ELSE self

handle_endtag(self, tag) ==
    [CloseStyle(self, tag) EXCEPT !.stack = CloseTag(@, tag)]

handle_data(self, data) ==
    IF self.in_style THEN [self EXCEPT !.style_buffer = Append(@, data)] ELSE self

----------------------------------------------------------------------------
(* detect_stack.py main()                                                  *)

VARIABLES
    args,               \* parse_args(): [framework, style]
    root_is_dir,        \* project_root.exists() and project_root.is_dir()
    deps,               \* keys of the merged dependency blocks of package.json
    paths,              \* the paths below project_root that exist
    walk,               \* the files os.walk visits, in order
    pc,                 \* position in main()
    source_stats,
    framework, fw_confidence, fw_evidence, fw_scores,
    language, language_evidence,
    style_system, style_evidence, style_confidence,
    style_scores,       \* the scores dict inside detect_style_system (not returned)
    package_manager, pm_evidence,
    overrides,
    output,             \* the JSON document printed
    exit_code,
    self,               \* the DraftInspector instance
    cdata_elem,         \* HTMLParser.cdata_elem: the element whose text is being read
    nevents,            \* handler calls made so far by feed()
    last_event,         \* the handler call just made
    elements,           \* (tag, attrs, selfclosing) of every handle_starttag call so far
    pushes,             \* times self.stack.append has run
    removals,           \* times self.stack.pop() or del self.stack[idx] has run
    items, limit,       \* the arguments of a call of unique_limited
    result,             \* what the call returned
    max_files,          \* the bound of a run of gather_source_stats
    next_file,          \* position of the walk of that run in the variable walk
    scanned, counts,    \* its locals
    returned,           \* whether it has returned
    inferred            \* what infer_framework of suggest_target_path.py returned

inputs == <<args, root_is_dir, deps, paths, walk>>
detected == <<source_stats, framework, fw_confidence, fw_evidence, fw_scores,
              language, language_evidence, style_system, style_evidence,
              style_confidence, style_scores, package_manager, pm_evidence>>
classification == <<inputs, pc, detected, overrides, output, exit_code>>
inspection == <<self, cdata_elem, nevents, last_event, elements, pushes, removals>>
extraction == <<items, limit, result>>
traversal == <<max_files, next_file, scanned, counts, returned>>
tools == <<extraction, traversal, inferred>>
vars == <<classification, inspection, tools>>

None == "None"

AutoArgs == [framework |-> "auto", style |-> "auto"]

NoEvent == [kind |-> "none", tag |-> "", attrs |-> <<>>, data |-> <<>>]

InitInspection ==
    /\ self = NewInspector
    /\ cdata_elem = None
    /\ nevents = 0
    /\ last_event = NoEvent
    /\ elements = <<>>
    /\ pushes = 0
    /\ removals = 0

\* no call of unique_limited, gather_source_stats or infer_framework is observed
InitTools ==
    /\ items = <<>> /\ limit = None /\ result = None
    /\ max_files = None /\ next_file = None /\ scanned = None /\ counts = None
    /\ returned = None
    /\ inferred = None

InitLocals ==
    /\ pc = "start"
    /\ source_stats = None
    /\ framework = None /\ fw_confidence = None /\ fw_evidence = None /\ fw_scores = None
    /\ language = None /\ language_evidence = None
    /\ style_system = None /\ style_evidence = None /\ style_confidence = None
    /\ style_scores = None
    /\ package_manager = None /\ pm_evidence = None
    /\ overrides = None
    /\ output = None
    /\ exit_code = None

Init ==
    /\ \/ \E p \in SmallProjects :
            /\ deps = p.deps /\ paths = p.paths /\ walk = p.walk
            /\ args \in [framework : FrameworkChoices, style : StyleChoices]
            /\ root_is_dir = TRUE
       \/ \E p \in FrameworkProjects \cup StyleProjects \cup LanguageProjects :
            /\ deps = p.deps /\ paths = p.paths /\ walk = p.walk
            /\ args = AutoArgs
            /\ root_is_dir = TRUE
       \/ /\ deps = {} /\ paths = {} /\ walk = <<>>
          /\ args = AutoArgs
          /\ root_is_dir = FALSE
    /\ InitLocals
    /\ InitInspection
    /\ InitTools

\* lines 275-276: the project root is missing or not a directory
RootNotFound ==
    /\ pc = "start"
    /\ ~root_is_dir
    /\ output' = [error |-> "project root not found"]
    /\ exit_code' = 2
    /\ pc' = "exit"
    /\ UNCHANGED <<tools, inspection, inputs, detected, overrides>>

\* lines 278-290: the five detectors, always run, whatever args says
RunDetectors ==
    /\ pc = "start"
    /\ root_is_dir
    /\ LET stats == gather_source_stats(walk, MAX_FILES)
           fw == detect_framework(paths, deps)
           lang == detect_language(paths, stats)
           style == detect_style_system(paths, deps, stats)
           pm == detect_package_manager(paths)
       IN  /\ source_stats' = stats
           /\ framework' = fw.name
           /\ fw_confidence' = fw.confidence
           /\ fw_evidence' = fw.evidence
           /\ fw_scores' = fw.scores
           /\ language' = lang.name
           /\ language_evidence' = lang.evidence
           /\ style_system' = style.name
           /\ style_evidence' = style.evidence
           /\ style_confidence' = style.confidence
           /\ style_scores' = style.scores
           /\ package_manager' = pm.name
           /\ pm_evidence' = pm.evidence
    /\ pc' = "detected"
    /\ UNCHANGED <<tools, inspection, inputs, overrides, output, exit_code>>

\* lines 292-308: the overrides replace the detected winner, evidence and
\* confidence of their axis; an empty evidence list gets a fallback entry
ApplyOverrides ==
    /\ pc = "detected"
    /\ LET fwForced == args.framework # "auto"
           styleForced == args.style # "auto"
           fwName == IF fwForced THEN args.framework ELSE framework
           styleName == IF styleForced THEN args.style ELSE style_system
           fwEv == IF fwForced THEN <<"override: framework=" \o args.framework>>
                   ELSE fw_evidence
           styleEv == IF styleForced THEN <<"override: style=" \o args.style>>
                      ELSE style_evidence
       IN  /\ framework' = fwName
           /\ style_system' = styleName
           /\ fw_confidence' = IF fwForced THEN Lit(990) ELSE fw_confidence
           /\ style_confidence' = IF styleForced THEN Lit(990) ELSE style_confidence
           /\ fw_evidence' = IF fwEv = <<>> THEN <<"fallback: framework=" \o fwName>> ELSE fwEv
           /\ style_evidence' = IF styleEv = <<>>
                                THEN <<"fallback: style_system=" \o styleName>> ELSE styleEv
           /\ overrides' = [k \in ({"framework"} \cap (IF fwForced THEN {"framework"} ELSE {}))
                                  \cup (IF styleForced THEN {"style_system"} ELSE {})
                            |-> IF k = "framework" THEN args.framework ELSE args.style]
    /\ pc' = "overridden"
    /\ UNCHANGED <<tools, inspection, inputs, source_stats, fw_scores, language, language_evidence,
                   style_scores, package_manager, pm_evidence, output, exit_code>>

\* mutant: the mean of the two confidences, not rounded
ReportConfidenceUnrounded(fwc, stc) == FMin(Lit(990), FHalf(FAdd(fwc, stc)))

ReportConfidence(fwc, stc) == Round2(FMin(Lit(990), FHalf(FAdd(fwc, stc))))

\* lines 310-334: the report
EmitReport ==
    /\ pc = "overridden"
    /\ LET report ==
             [framework |-> framework,
              language |-> language,
              style_system |-> style_system,
              package_manager |-> package_manager,
              confidence |-> ReportConfidence(fw_confidence, style_confidence),
              evidence |-> [framework |-> fw_evidence,
                            language |-> language_evidence,
                            style_system |-> style_evidence,
                            package_manager |-> pm_evidence],
              diagnostics |-> [framework_scores |->
                                   [k \in DOMAIN fw_scores |-> Round2(fw_scores[k])],
                               source_stats |-> source_stats]]
       IN  output' = IF DOMAIN overrides # {}
                     THEN report @@ [overrides |-> overrides] ELSE report
    /\ exit_code' = 0
    /\ pc' = "exit"
    /\ UNCHANGED <<tools, inspection, inputs, detected, overrides>>

Next == RootNotFound \/ RunDetectors \/ ApplyOverrides \/ EmitReport

Spec == Init /\ [][Next]_vars

----------------------------------------------------------------------------
(* inspect_html.py: HTMLParser.feed() calling the handlers of DraftInspector *)

\* no classification is running
InitIdle ==
    /\ args = AutoArgs /\ root_is_dir = TRUE
    /\ deps = {} /\ paths = {} /\ walk = <<>>
    /\ InitLocals

Event(kind, tag, attrs, data) == [kind |-> kind, tag |-> tag, attrs |-> attrs, data |-> data]

\* <tag attrs>
StartTag(tag, attrs) ==
    /\ cdata_elem = None
    /\ self' = handle_starttag(self, tag, attrs)
    /\ cdata_elem' = IF tag \in CDATA_CONTENT_ELEMENTS THEN tag ELSE None
    /\ nevents' = nevents + 1
    /\ last_event' = Event("start", tag, attrs, <<>>)
    /\ elements' = Append(elements, [tag |-> tag, attrs |-> attrs, selfclosing |-> FALSE])
    /\ pushes' = pushes + 1
    /\ UNCHANGED <<removals, classification, tools>>

\* <tag attrs/>
StartEndTag(tag, attrs) ==
    /\ cdata_elem = None
    /\ self' = handle_startendtag(self, tag, attrs)
    /\ nevents' = nevents + 1
    /\ last_event' = Event("startend", tag, attrs, <<>>)
    /\ elements' = Append(elements, [tag |-> tag, attrs |-> attrs, selfclosing |-> TRUE])
    /\ pushes' = pushes + 1
    /\ removals' = LET s == handle_starttag(self, tag, attrs)
                   IN  IF s.stack # <<>> /\ s.stack[Len(s.stack)] = tag
                       THEN removals + 1 ELSE removals
    /\ UNCHANGED <<cdata_elem, classification, tools>>

\* </tag>; inside a CDATA element only its own end tag is a tag
EndTag(tag) ==
    /\ cdata_elem = None \/ cdata_elem = tag
    /\ self' = handle_endtag(self, tag)
    /\ cdata_elem' = None
    /\ nevents' = nevents + 1
    /\ last_event' = Event("end", tag, <<>>, <<>>)
    /\ removals' = IF \E i \in DOMAIN self.stack : self.stack[i] = tag
                   THEN removals + 1 ELSE removals
    /\ UNCHANGED <<elements, pushes, classification, tools>>

\* text between tags
Data(data) ==
    /\ self' = handle_data(self, data)
    /\ nevents' = nevents + 1
    /\ last_event' = Event("data", "", <<>>, data)
    /\ UNCHANGED <<cdata_elem, elements, pushes, removals, classification, tools>>

\* the tags of the sample drafts
SampleStartTags ==
    { [tag |-> "body", attrs |-> <<>>],
      [tag |-> "div", attrs |-> <<>>],
      [tag |-> "div", attrs |-> << <<"class", <<"c", "a", "r", "d">>>> >>],
      [tag |-> "div", attrs |-> << <<"id", <<"x">>>>, <<"class", <<"a", " ", " ", "b", " ", "a">>>> >>],
      [tag |-> "span", attrs |-> <<>>],
      [tag |-> "style", attrs |-> <<>>],
      [tag |-> "section", attrs |-> << <<"style", <<"c", ":", "#", "f">>>>, <<"class", <<"a">>>>,
                                       <<"class", <<"b">>>> >>],
      [tag |-> "button", attrs |-> << <<"onclick", <<"g", "o">>>>, <<"class", NoneValue>> >>],
      [tag |-> "img", attrs |-> << <<"src", <<"i">>>>, <<"role", <<"b", "u", "t", "t", "o", "n">>>> >>],
      [tag |-> "link", attrs |-> << <<"rel", <<"S", "t", "y", "l", "e", "s", "h", "e", "e", "t">>>>,
                                    <<"href", <<"h">>>> >>],
      [tag |-> "script", attrs |-> << <<"src", <<"j">>>> >>] }

SampleEndTags == {"body", "div", "span", "style", "script", "p"}

SampleData == { <<" ">>, <<"x">>, <<" ", "p", "{", "}", "\n">> }

\* the number of handler calls of a sample draft
MaxEvents == 3

FeedStartTag ==
    /\ nevents < MaxEvents
    /\ \E t \in SampleStartTags : StartTag(t.tag, t.attrs)

FeedStartEndTag ==
    /\ nevents < MaxEvents
    /\ \E t \in SampleStartTags : StartEndTag(t.tag, t.attrs)

FeedEndTag ==
    /\ nevents < MaxEvents
    /\ \E tag \in SampleEndTags : EndTag(tag)

FeedData ==
    /\ nevents < MaxEvents
    /\ \E data \in SampleData : Data(data)

InitInspect == InitIdle /\ InitInspection /\ InitTools

NextInspect == FeedStartTag \/ FeedStartEndTag \/ FeedEndTag \/ FeedData

SpecInspect == InitInspect /\ [][NextInspect]_vars

----------------------------------------------------------------------------
(* Drafts of bare, possibly unbalanced tags: the open-tag stack            *)

NestingTags == {"div", "span"}
NestingEndTags == {"div", "span", "p"}

\* the number of handler calls of a draft of bare tags
MaxNestingEvents == 6

NestStartTag ==
    /\ nevents < MaxNestingEvents
    /\ \E tag \in NestingTags : StartTag(tag, <<>>)

NestStartEndTag ==
    /\ nevents < MaxNestingEvents
    /\ \E tag \in NestingTags : StartEndTag(tag, <<>>)

NestEndTag ==
    /\ nevents < MaxNestingEvents
    /\ \E tag \in NestingEndTags : EndTag(tag)

NextNesting == NestStartTag \/ NestStartEndTag \/ NestEndTag

SpecNesting == InitInspect /\ [][NextNesting]_vars

----------------------------------------------------------------------------
(* Long drafts: line breaks before, inside and after one body, and one div *)
(* element, so that more than ROOT_CHILD_LIMIT tags open under body        *)

\* the number of handler calls of a long draft
MaxRootEvents == 33

HeroId == << <<"id", <<"h", "e", "r", "o">>>> >>

FillBreak ==
    /\ nevents < MaxRootEvents
    /\ StartEndTag("br", <<>>)

FillBody ==
    /\ nevents < MaxRootEvents
    /\ self.stack = <<>>
    /\ Count(self.tag_counter, "body") = 0
    /\ StartTag("body", <<>>)

FillDiv ==
    /\ nevents < MaxRootEvents
    /\ Count(self.tag_counter, "div") = 0
    /\ StartTag("div", HeroId)

FillEndDiv ==
    /\ nevents < MaxRootEvents
    /\ \E i \in DOMAIN self.stack : self.stack[i] = "div"
    /\ EndTag("div")

NextRoot == FillBreak \/ FillBody \/ FillDiv \/ FillEndDiv

SpecRoot == InitInspect /\ [][NextRoot]_vars

----------------------------------------------------------------------------
(* inspect_html.py: unique_limited, called by extract_tokens and by main   *)

\* mutant: seen holds the items as captured, not their trimmed text
RECURSIVE UniqueFromRawSeen(_, _, _, _, _)
UniqueFromRawSeen(its, i, seen, res, lim) ==
    IF i > Len(its) THEN res
    ELSE IF Strip(its[i]) = <<>> THEN UniqueFromRawSeen(its, i + 1, seen, res, lim)
    ELSE IF its[i] \in seen THEN UniqueFromRawSeen(its, i + 1, seen, res, lim)
    ELSE IF Len(res) + 1 >= lim THEN Append(res, Strip(its[i]))
    ELSE UniqueFromRawSeen(its, i + 1, seen \cup {its[i]}, Append(res, Strip(its[i])), lim)

\* lines 113-122: the loop from item i on; the break of line 121 ends it
RECURSIVE UniqueFrom(_, _, _, _, _)
UniqueFrom(its, i, seen, res, lim) ==
    IF i > Len(its) THEN res
    ELSE IF Strip(its[i]) = <<>> THEN UniqueFrom(its, i + 1, seen, res, lim)
    ELSE IF Strip(its[i]) \in seen THEN UniqueFrom(its, i + 1, seen, res, lim)
    ELSE IF Len(res) + 1 >= lim THEN Append(res, Strip(its[i]))
    ELSE UniqueFrom(its, i + 1, seen \cup {Strip(its[i])}, Append(res, Strip(its[i])), lim)

unique_limited(its, lim) == UniqueFrom(its, 1, {}, <<>>, lim)

\* the default limit, which extract_tokens uses, and the limit of the asset lists
TOKEN_LIMIT == 40
ASSET_LIMIT == 50

\* captured strings: two spellings of a colour that differ in case, the same
\* with whitespace around it, and blanks
CapturedSamples ==
    { <<"#", "F">>, <<"#", "f">>, <<" ", "#", "f">>, <<"#", "f", "\n">>, <<>>, <<" ", "\t">> }

\* the length of a short list of captured strings, and the largest limit
\* tried on one
MaxCaptured == 3
MaxLimit == 3

RECURSIVE SeqsUpTo(_, _)
SeqsUpTo(S, n) ==
    IF n <= 0 THEN {<<>>}
    ELSE SeqsUpTo(S, n - 1) \cup {Append(q, x) : q \in {r \in SeqsUpTo(S, n - 1) : Len(r) = n - 1}, x \in S}

\* a list longer than both limits: 52 different strings after a few repeats
LongCapture ==
    << <<" ", "#", "f">>, <<"#", "F">>, <<>>, <<"#", "f">> >>
    \o [i \in 1..(ASSET_LIMIT + 2) |-> [j \in 1..i |-> "x"]]

InitUnique ==
    /\ InitIdle /\ InitInspection
    /\ items \in SeqsUpTo(CapturedSamples, MaxCaptured) \cup {LongCapture}
    /\ limit = None /\ result = None
    /\ max_files = None /\ next_file = None /\ scanned = None /\ counts = None
    /\ returned = None
    /\ inferred = None

Call(lim) ==
    /\ result = None
    /\ limit' = lim
    /\ result' = unique_limited(items, lim)
    /\ UNCHANGED <<items, classification, inspection, traversal, inferred>>

\* lines 139-143: unique_limited(colors) and the like
UniqueTokens == Call(TOKEN_LIMIT)

\* lines 196-198: unique_limited(inspector.images, limit=50) and the like
UniqueAssets == Call(ASSET_LIMIT)

\* any other limit
UniqueUpTo == \E lim \in 1..MaxLimit : Call(lim)

NextUnique == UniqueTokens \/ UniqueAssets \/ UniqueUpTo

SpecUnique == InitUnique /\ [][NextUnique]_vars

----------------------------------------------------------------------------
(* detect_stack.py: gather_source_stats, one file of the walk at a time    *)

\* files of a small tree: two that are counted, one that has no suffix and
\* one below a pruned directory
WalkSamples ==
    { [dirs |-> <<"src">>, name |-> <<"app", "tsx">>],
      [dirs |-> <<"src">>, name |-> <<"card", "module", "css">>],
      [dirs |-> <<>>, name |-> <<"LICENSE">>],
      [dirs |-> <<"node_modules", "pkg">>, name |-> <<"theme", "scss">>] }

\* the number of files of a small tree, and the largest bound tried on one
MaxWalk == 3
MaxSmallBound == 2

\* a tree of more files than the default bound
BigTree == [i \in 1..(MAX_FILES + 2) |-> [dirs |-> <<"src">>, name |-> <<ToString(i), "ts">>]]

InitWalk ==
    /\ args = AutoArgs /\ root_is_dir = TRUE /\ deps = {} /\ paths = {}
    /\ InitLocals /\ InitInspection
    /\ \/ walk \in SeqsUpTo(WalkSamples, MaxWalk) /\ max_files \in 0..MaxSmallBound
       \/ walk = BigTree /\ max_files = MAX_FILES
    /\ next_file = 1
    /\ scanned = 0
    /\ counts = ZeroCounts
    /\ returned = FALSE
    /\ items = <<>> /\ limit = None /\ result = None
    /\ inferred = None

\* the loop of line 58 has a file left
Pending == returned = FALSE /\ next_file <= Len(walk)

\* line 59: the file lies below a directory the walk does not enter
Pruned(i) == Range(walk[i].dirs) \cap EXCLUDED_DIRS # {}

\* mutant: the bound is tested with > instead of >=
BoundReachedLate(n, bound) == n > bound

\* line 62
BoundReached(n, bound) == n >= bound

SkipPruned ==
    /\ Pending /\ Pruned(next_file)
    /\ next_file' = next_file + 1
    /\ UNCHANGED <<max_files, scanned, counts, returned>>
    /\ UNCHANGED <<classification, inspection, extraction, inferred>>

\* lines 64-94: one file is examined
ExamineFile ==
    /\ Pending /\ ~Pruned(next_file)
    /\ ~BoundReached(scanned, max_files)
    /\ scanned' = scanned + 1
    /\ counts' = CountFile(counts, walk[next_file].name)
    /\ next_file' = next_file + 1
    /\ UNCHANGED <<max_files, returned>>
    /\ UNCHANGED <<classification, inspection, extraction, inferred>>

\* lines 62-63: return counts
ReturnEarly ==
    /\ Pending /\ ~Pruned(next_file)
    /\ BoundReached(scanned, max_files)
    /\ returned' = TRUE
    /\ UNCHANGED <<max_files, next_file, scanned, counts>>
    /\ UNCHANGED <<classification, inspection, extraction, inferred>>

\* line 96: the walk is over
ReturnCounts ==
    /\ returned = FALSE /\ next_file > Len(walk)
    /\ returned' = TRUE
    /\ UNCHANGED <<max_files, next_file, scanned, counts>>
    /\ UNCHANGED <<classification, inspection, extraction, inferred>>

NextWalk == SkipPruned \/ ExamineFile \/ ReturnEarly \/ ReturnCounts

SpecWalk == InitWalk /\ [][NextWalk]_vars

\* a running loop goes on
SpecWalkFair == SpecWalk /\ WF_vars(NextWalk)

----------------------------------------------------------------------------
(* suggest_target_path.py: infer_framework, next to the classifier         *)

\* both scripts are run on the same project, without a framework override
InitPath ==
    /\ \E p \in FrameworkProjects :
            deps = p.deps /\ paths = p.paths /\ walk = p.walk
    /\ args = AutoArgs
    /\ root_is_dir = TRUE
    /\ InitLocals
    /\ InitInspection
    /\ InitTools

\* suggest_target_path.py resolves its framework
InferFramework ==
    /\ inferred = None
    /\ inferred' = infer_framework(paths, deps, args.framework)
    /\ UNCHANGED <<classification, inspection, extraction, traversal>>

NextPath == RunDetectors \/ InferFramework

SpecPath == InitPath /\ [][NextPath]_vars

----------------------------------------------------------------------------
(* Properties of the classification report                                 *)

Reported == pc = "exit" /\ exit_code = 0

\* C1: whenever a framework or a style override is given, the report names
\* the forced label as that axis's winner, that axis's evidence is exactly
\* one override entry, and the report's confidence is 0.99.
C1_OverrideReported ==
    Reported =>
        /\ args.framework # "auto" =>
              /\ output.framework = args.framework
              /\ output.evidence.framework = <<"override: framework=" \o args.framework>>
              /\ output.confidence = Lit(990)
        /\ args.style # "auto" =>
              /\ output.style_system = args.style
              /\ output.evidence.style_system = <<"override: style=" \o args.style>>
              /\ output.confidence = Lit(990)

IndexOf(labels, name) == CHOOSE i \in DOMAIN labels : labels[i] = name

\* no score is negative, no candidate scores more than the winner, and every
\* candidate declared before the winner scores strictly less
WinnerIsFirstMax(labels, scores, winner) ==
    /\ \A i \in DOMAIN labels : ~FIsNeg(scores[labels[i]])
    /\ \A i \in DOMAIN labels : FLe(scores[labels[i]], scores[winner])
    /\ \A i \in DOMAIN labels :
           i < IndexOf(labels, winner) => FLt(scores[labels[i]], scores[winner])

\* C3: in detect_framework and in detect_style_system every score is
\* non-negative, the winner has the maximum score of its axis, and among
\* candidates of equal top score the first declared one wins.
C3_WinnerIsFirstMaximum ==
    pc = "detected" =>
        /\ WinnerIsFirstMax(FrameworkLabels, fw_scores, framework)
        /\ WinnerIsFirstMax(StyleLabels, style_scores, style_system)

\* react and vue tie at the top and react, declared first, has won
C3_Witness ==
    /\ pc = "detected"
    /\ framework = "react"
    /\ FEq(fw_scores["react"], fw_scores["vue"])
    /\ FLt(Lit(0), fw_scores["react"])

\* a multiple of 0.01 in [0.1, 0.99], as the binary64 value Python prints
TwoDecimalInRange(c) == c.t \in 100..990 /\ c.t % 10 = 0 /\ c = Lit(c.t)

\* C4: the confidence returned by detect_framework, the one returned by
\* detect_style_system and the one written in the report each lie in
\* [0.1, 0.99] and are two-decimal values, under every override.
C4_ConfidenceRange ==
    /\ pc \in {"detected", "overridden"} \/ Reported =>
           TwoDecimalInRange(fw_confidence) /\ TwoDecimalInRange(style_confidence)
    /\ Reported => TwoDecimalInRange(output.confidence)

\* a report whose confidence is the mean of two confidences with an odd sum
C4_Witness ==
    /\ Reported
    /\ (fw_confidence.t + style_confidence.t) % 20 = 10
    /\ args.style # "auto"
    /\ output.confidence.t < 990

\* the largest score among the candidates other than the winner, in thousandths
RunnerUp(labels, scores, winner) ==
    CHOOSE m \in {scores[labels[i]].t : i \in DOMAIN labels \ {IndexOf(labels, winner)}} :
        \A i \in DOMAIN labels \ {IndexOf(labels, winner)} : scores[labels[i]].t <= m

\* x/1000000 rounded to hundredths, half to even, in thousandths
RoundMicro(x) ==
    LET q == x \div 10000
        r == x % 10000
    IN  10 * (IF r > 5000 \/ (r = 5000 /\ q % 2 = 1) THEN q + 1 ELSE q)

Min(a, b) == IF a < b THEN a ELSE b
Max(a, b) == IF a > b THEN a ELSE b

\* the stated confidence model of the framework axis, in decimal arithmetic
StatedFrameworkConfidence(top_name, top, second) ==
    IF top_name = "vanilla" THEN (IF top > 200 THEN 550 ELSE 350)
    ELSE LET base == Min(980000, 450000 + top * 280)
             raw == IF top - second < 250 THEN base - 120000 ELSE base
         IN  Max(100, RoundMicro(raw))

\* C5: the framework confidence is 0.55 or 0.35 when vanilla wins (0.55 when
\* its score exceeds 0.2), otherwise min(0.98, 0.45 + top * 0.28), minus 0.12
\* exactly when the margin over the runner-up is below 0.25, then floored at
\* 0.1 and rounded to two decimals.
C5_FrameworkConfidenceModel ==
    pc = "detected" =>
        fw_confidence = Lit(StatedFrameworkConfidence(
                                framework, fw_scores[framework].t,
                                RunnerUp(FrameworkLabels, fw_scores, framework)))

\* a framework other than vanilla has won by less than 0.25
C5_Witness ==
    /\ pc = "detected"
    /\ framework = "nuxt"
    /\ fw_scores["nuxt"].t - RunnerUp(FrameworkLabels, fw_scores, "nuxt") \in 1..249
    /\ fw_confidence = Lit(670)

\* C6: with an override no scoring rule of that axis is evaluated, so the
\* scores of that axis, and the scores reported, stay at their baselines.
C6_OverrideSkipsScoring ==
    /\ (pc # "start" /\ args.framework # "auto") => fw_scores = FrameworkBaseline
    /\ (pc # "start" /\ args.style # "auto") => style_scores = StyleBaseline
    /\ (Reported /\ args.framework # "auto") =>
           output.diagnostics.framework_scores = FrameworkBaseline

----------------------------------------------------------------------------
(* Properties of the structural inspector                                  *)

Bare(tag) == [tag |-> tag, attrs |-> <<>>, selfclosing |-> FALSE]

\* the draft <div><span></div> has been fed
C2_Fed ==
    /\ nevents = 3
    /\ elements = <<Bare("div"), Bare("span")>>
    /\ last_event = Event("end", "div", <<>>, <<>>)

\* C2 as stated: after <div><span></div> the open-tag stack is empty.
C2_StackEmptyAfterClose == C2_Fed => self.stack = <<>>

\* C2 as amended: after <div><span></div> the inspector has removed the div
\* entry only; the span that was never closed is still on the stack.
C2_UnclosedSpanRemains ==
    C2_Fed => self.stack = <<"span">> /\ pushes = 2 /\ removals = 1

C2_Witness == C2_Fed /\ Len(self.stack) = 1

\* the tokens of the class attribute of an element seen
ClassTokens(element) ==
    LET class_attr == Get(AttrsDict(element.attrs), "class", NoneValue)
    IN  IF Truthy(class_attr) THEN Split(class_attr) ELSE <<>>

ClassNamesSeen ==
    DOMAIN self.class_counter
    \cup UNION {Range(ClassTokens(elements[i])) : i \in DOMAIN elements}

Occurrences(seq, x) == Cardinality({i \in DOMAIN seq : seq[i] = x})

RECURSIVE TokenTotal(_, _)
TokenTotal(n, name) ==
    IF n = 0 THEN 0
    ELSE TokenTotal(n - 1, name) + Occurrences(ClassTokens(elements[n]), name)

\* C7 as stated: the counter of every class name equals the number of
\* elements whose class attribute contains that name.
C7_CountsElements ==
    \A name \in ClassNamesSeen :
        Count(self.class_counter, name)
            = Cardinality({i \in DOMAIN elements : name \in Range(ClassTokens(elements[i]))})

\* C7 as amended: the counter of every class name equals the number of
\* tokens equal to that name in the class attributes of all elements seen, so
\* a name written k times in one attribute adds k.
C7_CountsTokens ==
    \A name \in ClassNamesSeen :
        Count(self.class_counter, name) = TokenTotal(Len(elements), name)

\* two nested elements of class card, and inside them one whose attribute
\* repeats a name
C7_Witness ==
    /\ Len(elements) = 3
    /\ self.stack = <<"div", "div", "div">>
    /\ Count(self.class_counter, <<"c", "a", "r", "d">>) = 2
    /\ Count(self.class_counter, <<"a">>) = 2
    /\ Count(self.class_counter, <<"b">>) = 1

HandlerCalled(kinds) == nevents' = nevents + 1 /\ last_event'.kind \in kinds

\* a closing tag removes the innermost entry of its name and nothing else
EndTagRemovesInnermost ==
    HandlerCalled({"end"}) =>
        LET tag == last_event'.tag
            old == self.stack
            new == self'.stack
        IN  IF \A i \in DOMAIN old : old[i] # tag THEN new = old
            ELSE \E i \in DOMAIN old :
                    /\ old[i] = tag
                    /\ \A j \in DOMAIN old : j > i => old[j] # tag
                    /\ Len(new) = Len(old) - 1
                    /\ \A k \in DOMAIN new : new[k] = IF k < i THEN old[k] ELSE old[k + 1]

\* C8: a closing tag removes exactly one entry of the stack, the innermost
\* one of the same name, wherever it is, and keeps the order of the others;
\* without such an entry the stack is unchanged.  The stack length always
\* equals the pushes minus the removals and is never negative.
C8_InnermostRemoval ==
    /\ [][EndTagRemovesInnermost]_vars
    /\ [](Len(self.stack) = pushes - removals /\ pushes >= removals)

\* <div><span><div></div>: the inner div is removed, the outer one stays
C8_Witness ==
    /\ nevents = 4
    /\ elements = <<Bare("div"), Bare("span"), Bare("div")>>
    /\ last_event.kind = "end" /\ last_event.tag = "div"
    /\ self.stack = <<"div", "span">>
    /\ removals = 1

StyleOpen == \E i \in DOMAIN self.stack : self.stack[i] = "style"

\* C9: text is buffered as style text exactly while a style element is
\* open; its closing tag appends the trimmed buffer to the style blocks if
\* it is not empty, clears the buffer and ends the buffering; text met while
\* no style element is open, also after a self-closing style tag, is ignored.
C9_StyleTextOnlyInsideStyle ==
    [][ /\ HandlerCalled({"data"}) =>
              self'.style_buffer = IF StyleOpen THEN Append(self.style_buffer, last_event'.data)
                                   ELSE self.style_buffer
        /\ HandlerCalled({"data"}) /\ ~StyleOpen => self' = self
        /\ (HandlerCalled({"end"}) /\ last_event'.tag = "style" /\ StyleOpen) =>
              /\ self'.style_blocks =
                     IF Strip(Join(self.style_buffer)) # <<>>
                     THEN Append(self.style_blocks, Strip(Join(self.style_buffer)))
                     ELSE self.style_blocks
              /\ self'.style_buffer = <<>>
              /\ ~self'.in_style
        /\ (HandlerCalled({"end"}) /\ ~StyleOpen) => self'.style_blocks = self.style_blocks
      ]_vars

\* the sample lines 73-79 record for a tag
RootSample(tag, attrs) ==
    [tag |-> tag,
     id |-> Get(AttrsDict(attrs), "id", <<>>),
     class |-> Get(AttrsDict(attrs), "class", <<>>)]

RootChildStep ==
    IF HandlerCalled({"start", "startend"})
    THEN self'.root_children =
             IF /\ self.stack # <<>>
                /\ self.stack[Len(self.stack)] = "body"
                /\ Len(self.root_children) < 30
             THEN Append(self.root_children, RootSample(last_event'.tag, last_event'.attrs))
             ELSE self.root_children
    ELSE self'.root_children = self.root_children

\* C10: an opening tag is recorded as a root-child sample exactly when the
\* innermost stack entry is body and fewer than 30 samples are recorded; the
\* list never exceeds 30 entries, is in document order, and a recorded
\* sample is never removed or changed.
C10_RootChildSampling ==
    /\ [][RootChildStep]_vars
    /\ [](Len(self.root_children) <= 30)

\* a tag opened directly under body after 30 samples were taken: not recorded
C10_Witness ==
    /\ Len(self.root_children) = 30
    /\ self.stack = <<"body">>
    /\ last_event.kind = "startend"
    /\ Count(self.tag_counter, "br") = 31
    /\ Count(self.tag_counter, "div") = 0
    /\ nevents = 32

----------------------------------------------------------------------------
(* Properties of the remaining detectors                                   *)

\* the files of the walk outside the pruned directories whose suffix is one of these
FilesWithSuffix(suffixes) ==
    Cardinality({i \in DOMAIN walk : /\ Range(walk[i].dirs) \cap EXCLUDED_DIRS = {}
                                     /\ Suffix(walk[i].name) \in suffixes})

\* C11: language detection is a first-match chain: typescript if
\* tsconfig.json exists; otherwise typescript exactly when the ts+tsx count
\* is strictly greater than the js+jsx count; otherwise javascript, also on
\* equal counts; always exactly one evidence entry.
C11_LanguageChain ==
    language # None =>
        /\ language = IF "tsconfig.json" \in paths THEN "typescript"
                      ELSE IF FilesWithSuffix({"ts", "tsx"}) > FilesWithSuffix({"js", "jsx"})
                           THEN "typescript"
                      ELSE "javascript"
        /\ Len(language_evidence) = 1

\* no tsconfig.json, five .tsx files and one .js file: typescript
C11_Witness ==
    /\ "tsconfig.json" \notin paths
    /\ FilesWithSuffix({"tsx"}) = 5 /\ FilesWithSuffix({"ts"}) = 0
    /\ FilesWithSuffix({"js"}) = 1 /\ FilesWithSuffix({"jsx"}) = 0
    /\ language = "typescript"
    /\ language_evidence = <<"source: ts files 5 > js files 1">>

\* the trimmed, non-empty strings of a list, in order
RECURSIVE TrimmedNonEmpty(_)
TrimmedNonEmpty(its) ==
    IF its = <<>> THEN <<>>
    ELSE (IF Strip(Head(its)) = <<>> THEN <<>> ELSE <<Strip(Head(its))>>)
         \o TrimmedNonEmpty(Tail(its))

\* the first occurrence of every string of a list, in order
FirstOccurrences(its) ==
    SelectSeq([i \in DOMAIN its |-> [at |-> i, text |-> its[i]]],
              LAMBDA e : \A k \in 1..(e.at - 1) : its[k] # e.text)

Deduplicated(its) ==
    [i \in DOMAIN FirstOccurrences(TrimmedNonEmpty(its))
        |-> FirstOccurrences(TrimmedNonEmpty(its))[i].text]

\* C12: for every list of captured strings and every limit >= 1,
\* unique_limited returns the trimmed, non-empty items in first-seen order,
\* no two entries equal (exact, case-sensitive text), at most limit entries,
\* equal to the first limit entries of the whole deduplicated list; applied
\* to its own result it returns that result.
C12_UniqueLimited ==
    result # None =>
        /\ limit >= 1
        /\ Len(result) <= limit
        /\ \A i \in DOMAIN result : result[i] # <<>> /\ Strip(result[i]) = result[i]
        /\ \A i, j \in DOMAIN result : result[i] = result[j] => i = j
        /\ result = SubSeq(Deduplicated(items), 1, Min(limit, Len(Deduplicated(items))))
        /\ unique_limited(result, limit) = result

\* the asset limit cuts a list of 54 different strings, of which one was
\* captured twice; both spellings of the colour are kept
C12_Witness ==
    /\ items = LongCapture
    /\ result # None
    /\ limit = ASSET_LIMIT
    /\ Len(result) = 50
    /\ result[1] = <<"#", "f">> /\ result[2] = <<"#", "F">> /\ result[3] = <<"x">>

\* the files the run has examined: those the walk has passed outside the
\* pruned directories
Examined == Cardinality({i \in 1..(next_file - 1) : ~Pruned(i)})

\* C13: gather_source_stats returns on every finite tree and never examines
\* more than max_files files: with that many scanned and another file to
\* come it returns the counts gathered so far, without an error; every count
\* is non-negative and never decreases during the walk.
C13_BoundedWalk ==
    /\ <>(returned = TRUE)
    /\ [](Examined <= max_files /\ scanned = Examined)
    /\ [](\A k \in StatKeys : counts[k] >= 0)
    /\ [][\A k \in StatKeys : counts'[k] >= counts[k]]_vars
    /\ [][(Pending /\ ~Pruned(next_file) /\ Examined >= max_files)
              => (returned' = TRUE /\ counts' = counts)]_vars
    /\ []((returned = TRUE /\ walk # BigTree)
              => counts = gather_source_stats(walk, max_files))

\* a bound of one file stopped the walk at the third file of a tree; the
\* second one lies below node_modules and was not examined
C13_Witness ==
    /\ returned = TRUE
    /\ max_files = 1
    /\ Len(walk) = 3 /\ next_file = 3
    /\ Pruned(2)
    /\ Examined = 1
    /\ counts["tsx"] = 1 /\ counts["css"] = 0 /\ counts["module_css"] = 0

DetectorsRan == pc \in {"detected", "overridden"} \/ Reported

\* C14: no rule contributes to the baseline label: after every run of the
\* detectors the score of vanilla is exactly 0.2 and the score of css is
\* exactly 0.2; whenever vanilla wins detect_framework its confidence is 0.35
\* and its evidence is empty, and the report of a run without a framework
\* override then shows a single fallback entry.
C14_BaselineUntouched ==
    /\ DetectorsRan => fw_scores["vanilla"] = Lit(200) /\ style_scores["css"] = Lit(200)
    /\ (pc = "detected" /\ framework = "vanilla") =>
           fw_confidence = Lit(350) /\ fw_evidence = <<>>
    /\ (Reported /\ args.framework = "auto" /\ output.framework = "vanilla") =>
           /\ fw_confidence = Lit(350)
           /\ output.evidence.framework = <<"fallback: framework=vanilla">>

\* only a pages directory: three rules fire, none of them for vanilla, and
\* vanilla wins with its baseline
C14_Witness ==
    /\ Reported
    /\ args.framework = "auto"
    /\ paths = {"pages"}
    /\ fw_scores["next"] = Lit(100)
    /\ output.framework = "vanilla"
    /\ output.evidence.framework = <<"fallback: framework=vanilla">>

\* C15: for every set of dependency names and every combination of config
\* files and directories, without a framework override, infer_framework of
\* suggest_target_path.py returns the label that wins detect_framework.
C15_SameFramework ==
    (pc = "detected" /\ inferred # None /\ args.framework = "auto") => inferred = framework

====
